---- MODULE Spec2Model ----
(***************************************************************************)
(* The safe wrapper layer of hwinfo-rs (src/src/hwinfo.rs): every query    *)
(* calls into the native hwinfo library, validates the returned pointer    *)
(* and count, copies the foreign data into owned values and releases the   *)
(* foreign block through the matching free entry point.                    *)
(***************************************************************************)
EXTENDS Integers, Sequences, FiniteSets, TLC

(***************************************************************************)
(* Bounds of the model.                                                    *)
(***************************************************************************)
\* Largest value a foreign count entry point reports.
MaxCount == 2
\* Largest embedded array (flags, volumes, modules, thread values).
MaxArr == 2
\* The devices a list holds when several callers run at once.
ConcCount == 1

(***************************************************************************)
(* Result<T, HwinfoError> and the error variants.                          *)
(***************************************************************************)
Ok(v) == [tag |-> "Ok", val |-> v]
Err(e) == [tag |-> "Err", err |-> e]
IsOk(r) == r.tag = "Ok"
IsErr(r) == r.tag = "Err"

DataUnavailable(msg) == [kind |-> "DataUnavailable", msg |-> msg]
\* The Utf8Error payload is identified by the index up to which the bytes
\* were valid.
InvalidString(valid_up_to) == [kind |-> "InvalidString", valid_up_to |-> valid_up_to]

(***************************************************************************)
(* Foreign pointers into a block: null, or the memory they point at.       *)
(* An address returned by a get entry point is a number, 0 for null.       *)
(***************************************************************************)
NullPtr == [null |-> TRUE, mem |-> <<>>]
PtrTo(mem) == [null |-> FALSE, mem |-> mem]
is_null(p) == p.null

NULL == 0

(***************************************************************************)
(* CStr::from_ptr(s).to_str(): the bytes up to the first NUL, validated    *)
(* and decoded as UTF-8 into a sequence of Unicode scalar values.          *)
(***************************************************************************)
RECURSIVE CStrLen(_, _)
CStrLen(mem, n) ==
    IF mem[n + 1] = 0 THEN n ELSE CStrLen(mem, n + 1)

CStr_from_ptr(mem) == SubSeq(mem, 1, CStrLen(mem, 0))

IsCont(b, i) == i <= Len(b) /\ b[i] >= 128 /\ b[i] <= 191

\* Width of the well-formed UTF-8 sequence starting at byte i, 0 if none.
Utf8Width(b, i) ==
    LET b0 == b[i] IN
    IF b0 < 128 THEN 1
    ELSE IF b0 >= 194 /\ b0 <= 223 THEN
        IF IsCont(b, i + 1) THEN 2 ELSE 0
    ELSE IF b0 >= 224 /\ b0 <= 239 THEN
        IF /\ IsCont(b, i + 1) /\ IsCont(b, i + 2)
           /\ (b0 = 224 => b[i + 1] >= 160)
           /\ (b0 = 237 => b[i + 1] <= 159)
        THEN 3 ELSE 0
    ELSE IF b0 >= 240 /\ b0 <= 244 THEN
        IF /\ IsCont(b, i + 1) /\ IsCont(b, i + 2) /\ IsCont(b, i + 3)
           /\ (b0 = 240 => b[i + 1] >= 144)
           /\ (b0 = 244 => b[i + 1] <= 143)
        THEN 4 ELSE 0
    ELSE 0

Utf8Scalar(b, i, w) ==
    IF w = 1 THEN b[i]
    ELSE IF w = 2 THEN (b[i] - 192) * 64 + (b[i + 1] - 128)
    ELSE IF w = 3 THEN (b[i] - 224) * 4096 + (b[i + 1] - 128) * 64 + (b[i + 2] - 128)
    ELSE (b[i] - 240) * 262144 + (b[i + 1] - 128) * 4096
         + (b[i + 2] - 128) * 64 + (b[i + 3] - 128)

RECURSIVE Utf8From(_, _, _)
Utf8From(b, i, out) ==
    IF i > Len(b) THEN Ok(out)
    ELSE LET w == Utf8Width(b, i) IN
         IF w = 0 THEN Err(InvalidString(i - 1))
         ELSE Utf8From(b, i + w, Append(out, Utf8Scalar(b, i, w)))

to_str(bytes) == Utf8From(bytes, 1, <<>>)

(***************************************************************************)
(* Primitive decoders.                                                     *)
(***************************************************************************)
\* A plausible slip: a null text pointer reported as a failure.
c_char_to_string_NullFails(s) ==
    IF is_null(s) THEN Err(DataUnavailable("null string"))
    ELSE to_str(CStr_from_ptr(s.mem))

\* A plausible slip: lossy decoding, malformed bytes give the valid prefix.
c_char_to_string_Lossy(s) ==
    IF is_null(s) THEN Ok(<<>>)
    ELSE LET r == to_str(CStr_from_ptr(s.mem)) IN
         IF IsOk(r) THEN r
         ELSE to_str(SubSeq(CStr_from_ptr(s.mem), 1, r.err.valid_up_to))

c_char_to_string(s) ==
    IF is_null(s) THEN Ok(<<>>)
    ELSE to_str(CStr_from_ptr(s.mem))

\* collect::<Result<Vec<_>, _>>() over slice.iter().map(f): the values in
\* order, or the first failure, after which no further element is visited.
RECURSIVE CollectFrom(_, _, _)
CollectFrom(results, i, out) ==
    IF i > Len(results) THEN Ok(out)
    ELSE IF IsErr(results[i]) THEN results[i]
    ELSE CollectFrom(results, i + 1, Append(out, results[i].val))

collect(results) == CollectFrom(results, 1, <<>>)

\* std::slice::from_raw_parts(ptr, count as usize)
from_raw_parts(mem, count) == SubSeq(mem, 1, count)

\* A plausible slip: a null array pointer with a positive count reported as
\* a failure, as the queries do for a null get-all pointer.
c_string_array_to_vec_NullIsError(arr) ==
    IF arr.count <= 0 THEN Ok(<<>>)
    ELSE IF is_null(arr.strings) THEN Err(DataUnavailable("strings"))
    ELSE LET slice == from_raw_parts(arr.strings.mem, arr.count) IN
         collect([i \in 1..Len(slice) |-> c_char_to_string(slice[i])])

c_string_array_to_vec(arr) ==
    IF is_null(arr.strings) \/ arr.count <= 0 THEN Ok(<<>>)
    ELSE LET slice == from_raw_parts(arr.strings.mem, arr.count) IN
         collect([i \in 1..Len(slice) |-> c_char_to_string(slice[i])])

(***************************************************************************)
(* Entity converters (the TryFrom implementations).  The fields of a       *)
(* struct literal are evaluated in the order written, and each `?` returns *)
(* the failure at once.                                                    *)
(***************************************************************************)
RECURSIVE FirstErrFrom(_, _)
FirstErrFrom(results, i) ==
    IF i > Len(results) THEN 0
    ELSE IF IsErr(results[i]) THEN i
    ELSE FirstErrFrom(results, i + 1)

\* `?` applied to each of `results` in order, then Ok(value).
Try(results, value) ==
    LET k == FirstErrFrom(results, 1) IN
    IF k = 0 THEN Ok(value) ELSE results[k]

Cpu_try_from(c_cpu) ==
    LET vendor == c_char_to_string(c_cpu.vendor)
        model_name == c_char_to_string(c_cpu.modelName)
        flags == c_string_array_to_vec(c_cpu.flags)
    IN Try(<<vendor, model_name, flags>>,
           [id |-> c_cpu.id,
            vendor |-> vendor.val,
            model_name |-> model_name.val,
            num_physical_cores |-> c_cpu.numPhysicalCores,
            num_logical_cores |-> c_cpu.numLogicalCores,
            max_clock_speed_mhz |-> c_cpu.maxClockSpeed_MHz,
            regular_clock_speed_mhz |-> c_cpu.regularClockSpeed_MHz,
            l1_cache_size_bytes |-> c_cpu.L1CacheSize_Bytes,
            l2_cache_size_bytes |-> c_cpu.L2CacheSize_Bytes,
            l3_cache_size_bytes |-> c_cpu.L3CacheSize_Bytes,
            flags |-> flags.val])

Os_try_from(c_os) ==
    LET name == c_char_to_string(c_os.name)
        version == c_char_to_string(c_os.version)
        kernel == c_char_to_string(c_os.kernel)
    IN Try(<<name, version, kernel>>,
           [name |-> name.val,
            version |-> version.val,
            kernel |-> kernel.val,
            is_32_bit |-> c_os.is32bit,
            is_64_bit |-> c_os.is64bit,
            is_little_endian |-> c_os.isLittleEndian])

Gpu_try_from(c_gpu) ==
    LET vendor == c_char_to_string(c_gpu.vendor)
        name == c_char_to_string(c_gpu.name)
        driver_version == c_char_to_string(c_gpu.driverVersion)
        vendor_id == c_char_to_string(c_gpu.vendor_id)
        device_id == c_char_to_string(c_gpu.device_id)
    IN Try(<<vendor, name, driver_version, vendor_id, device_id>>,
           [id |-> c_gpu.id,
            vendor |-> vendor.val,
            name |-> name.val,
            driver_version |-> driver_version.val,
            memory_bytes |-> c_gpu.memory_Bytes,
            frequency_mhz |-> c_gpu.frequency_MHz,
            num_cores |-> c_gpu.num_cores,
            vendor_id |-> vendor_id.val,
            device_id |-> device_id.val])

RamModule_try_from(c_mod) ==
    LET vendor == c_char_to_string(c_mod.vendor)
        name == c_char_to_string(c_mod.name)
        model == c_char_to_string(c_mod.model)
        serial_number == c_char_to_string(c_mod.serial_number)
    IN Try(<<vendor, name, model, serial_number>>,
           [id |-> c_mod.id,
            vendor |-> vendor.val,
            name |-> name.val,
            model |-> model.val,
            serial_number |-> serial_number.val,
            total_bytes |-> c_mod.total_Bytes,
            frequency_hz |-> c_mod.frequency_Hz])

\* A plausible slip: free_bytes and available_bytes filled from each other.
MemoryInfo_try_from_Swapped(c_mem) ==
    LET modules ==
            IF is_null(c_mem.modules) \/ c_mem.module_count <= 0 THEN Ok(<<>>)
            ELSE LET slice == from_raw_parts(c_mem.modules.mem, c_mem.module_count) IN
                 collect([i \in 1..Len(slice) |-> RamModule_try_from(slice[i])])
    IN Try(<<modules>>,
           [total_bytes |-> c_mem.total_Bytes,
            free_bytes |-> c_mem.available_Bytes,
            available_bytes |-> c_mem.free_Bytes,
            modules |-> modules.val])

MemoryInfo_try_from(c_mem) ==
    LET modules ==
            IF is_null(c_mem.modules) \/ c_mem.module_count <= 0 THEN Ok(<<>>)
            ELSE LET slice == from_raw_parts(c_mem.modules.mem, c_mem.module_count) IN
                 collect([i \in 1..Len(slice) |-> RamModule_try_from(slice[i])])
    IN Try(<<modules>>,
           [total_bytes |-> c_mem.total_Bytes,
            free_bytes |-> c_mem.free_Bytes,
            available_bytes |-> c_mem.available_Bytes,
            modules |-> modules.val])

MainBoard_try_from(c_mb) ==
    LET vendor == c_char_to_string(c_mb.vendor)
        name == c_char_to_string(c_mb.name)
        version == c_char_to_string(c_mb.version)
        serial_number == c_char_to_string(c_mb.serialNumber)
    IN Try(<<vendor, name, version, serial_number>>,
           [vendor |-> vendor.val,
            name |-> name.val,
            version |-> version.val,
            serial_number |-> serial_number.val])

Disk_try_from(c_disk) ==
    LET vendor == c_char_to_string(c_disk.vendor)
        model == c_char_to_string(c_disk.model)
        serial_number == c_char_to_string(c_disk.serialNumber)
        volumes == c_string_array_to_vec(c_disk.volumes)
    IN Try(<<vendor, model, serial_number, volumes>>,
           [id |-> c_disk.id,
            vendor |-> vendor.val,
            model |-> model.val,
            serial_number |-> serial_number.val,
            size_bytes |-> c_disk.size_Bytes,
            free_size_bytes |-> c_disk.free_size_Bytes,
            volumes |-> volumes.val])

Battery_try_from(c_bat) ==
    LET vendor == c_char_to_string(c_bat.vendor)
        model == c_char_to_string(c_bat.model)
        serial_number == c_char_to_string(c_bat.serialNumber)
        technology == c_char_to_string(c_bat.technology)
    IN Try(<<vendor, model, serial_number, technology>>,
           [id |-> c_bat.id,
            vendor |-> vendor.val,
            model |-> model.val,
            serial_number |-> serial_number.val,
            technology |-> technology.val,
            energy_full_mwh |-> c_bat.energyFull,
            energy_now_mwh |-> c_bat.energyNow,
            is_charging |-> c_bat.charging])

Network_try_from(c_net) ==
    LET interface_index == c_char_to_string(c_net.interfaceIndex)
        description == c_char_to_string(c_net.description)
        mac_address == c_char_to_string(c_net.mac)
        ipv4_address == c_char_to_string(c_net.ip4)
        ipv6_address == c_char_to_string(c_net.ip6)
    IN Try(<<interface_index, description, mac_address, ipv4_address, ipv6_address>>,
           [interface_index |-> interface_index.val,
            description |-> description.val,
            mac_address |-> mac_address.val,
            ipv4_address |-> ipv4_address.val,
            ipv6_address |-> ipv6_address.val])

(***************************************************************************)
(* What the native library may hand back: the bounded sets the foreign     *)
(* results are drawn from.  Scalars are stand-ins inside TLC's integer     *)
(* range; every field of a struct has its own value so that a copy into    *)
(* the wrong field shows.                                                  *)
(***************************************************************************)
\* "Hi"
tHi == <<72, 105, 0>>
\* U+00E9 in two bytes, with a stray byte behind the terminator
tE == <<195, 169, 0, 255>>
\* 0xFF can start no UTF-8 sequence
tBad0 == <<255, 0>>
\* "A", then a two-byte lead cut off by the terminator
tBad1 == <<65, 195, 0>>
\* "Corsair"
tCorsair == <<67, 111, 114, 115, 97, 105, 114, 0>>

\* What a text field holds besides its usual value.
TextVariants == {NullPtr, PtrTo(tE), PtrTo(tBad0)}

\* The records that differ from base in one of the fields, by one of the values.
Vary(base, fields, values) == {[base EXCEPT ![f] = v] : f \in fields, v \in values}

\* Arrays of n text pointers, at most one of them unusual, and one whose
\* first two elements are both malformed.
StrSeqs(n) ==
    {[i \in 1..n |-> IF i = k THEN v ELSE PtrTo(tHi)] :
        k \in 1..n, v \in {PtrTo(tHi), NullPtr, PtrTo(tBad0)}}
    \cup (IF n >= 2
          THEN {[i \in 1..n |-> IF i = 1 THEN PtrTo(tBad1)
                                ELSE IF i = 2 THEN PtrTo(tBad0) ELSE PtrTo(tHi)]}
          ELSE {})

C_StringArrays ==
    {[strings |-> PtrTo(s), count |-> Len(s)] : s \in UNION {StrSeqs(n) : n \in 1..MaxArr}}
    \cup {[strings |-> NullPtr, count |-> c] : c \in {-1, 0, MaxArr}}
    \cup {[strings |-> PtrTo(<<PtrTo(tBad0)>>), count |-> c] : c \in {-1, 0}}
    \cup {[strings |-> PtrTo(<<>>), count |-> 0]}

C_StringArray_base == [strings |-> PtrTo(<<PtrTo(tHi)>>), count |-> 1]

C_CPU_base ==
    [id |-> 0, vendor |-> PtrTo(tHi), modelName |-> PtrTo(tHi),
     numPhysicalCores |-> 4, numLogicalCores |-> 8,
     maxClockSpeed_MHz |-> 4200, regularClockSpeed_MHz |-> 3000,
     L1CacheSize_Bytes |-> 32, L2CacheSize_Bytes |-> 256, L3CacheSize_Bytes |-> 8192,
     flags |-> C_StringArray_base]

C_CPUs ==
    {C_CPU_base}
    \cup Vary(C_CPU_base, {"id"}, {1})
    \cup Vary(C_CPU_base, {"vendor", "modelName"}, TextVariants)
    \cup Vary(C_CPU_base, {"flags"}, C_StringArrays)
    \cup {[C_CPU_base EXCEPT !.vendor = PtrTo(tBad1)],
          [C_CPU_base EXCEPT !.modelName = PtrTo(tBad1),
                             !.flags = [strings |-> PtrTo(<<PtrTo(tBad0)>>), count |-> 1]]}

C_OS_base ==
    [name |-> PtrTo(tHi), version |-> PtrTo(tHi), kernel |-> PtrTo(tHi),
     is32bit |-> FALSE, is64bit |-> TRUE, isLittleEndian |-> TRUE]

C_OSs ==
    {C_OS_base}
    \cup Vary(C_OS_base, {"is32bit", "is64bit", "isLittleEndian"}, BOOLEAN)
    \cup Vary(C_OS_base, {"name", "version", "kernel"}, TextVariants)
    \cup {[C_OS_base EXCEPT !.name = PtrTo(tBad1)],
          [C_OS_base EXCEPT !.version = PtrTo(tBad1), !.kernel = PtrTo(tBad0)]}

C_GPU_base ==
    [id |-> 0, vendor |-> PtrTo(tHi), name |-> PtrTo(tHi), driverVersion |-> PtrTo(tHi),
     memory_Bytes |-> 8192, frequency_MHz |-> 1800, num_cores |-> 2048,
     vendor_id |-> PtrTo(tHi), device_id |-> PtrTo(tHi)]

C_GPUs ==
    {C_GPU_base}
    \cup Vary(C_GPU_base, {"id"}, {1})
    \cup Vary(C_GPU_base, {"vendor", "name", "driverVersion", "vendor_id", "device_id"},
              TextVariants)
    \cup {[C_GPU_base EXCEPT !.vendor = PtrTo(tBad1)],
          [C_GPU_base EXCEPT !.name = PtrTo(tBad1), !.device_id = PtrTo(tBad0)]}

C_RAM_Module_base ==
    [id |-> 0, vendor |-> PtrTo(tCorsair), name |-> PtrTo(tHi), model |-> PtrTo(tHi),
     serial_number |-> PtrTo(tHi), total_Bytes |-> 8192, frequency_Hz |-> 3200]

C_RAM_Modules ==
    {C_RAM_Module_base}
    \cup Vary(C_RAM_Module_base, {"id"}, {1})
    \cup Vary(C_RAM_Module_base, {"vendor", "name", "model", "serial_number"}, TextVariants)
    \cup {[C_RAM_Module_base EXCEPT !.vendor = PtrTo(tBad1)],
          [C_RAM_Module_base EXCEPT !.name = PtrTo(tBad1), !.serial_number = PtrTo(tBad0)]}

C_MemoryInfo_base ==
    [total_Bytes |-> 16384, free_Bytes |-> 8192, available_Bytes |-> 10240,
     modules |-> NullPtr, module_count |-> 0]

\* The module arrays: every array of up to MaxArr modules with its length
\* as the count, and the pointer/count pairs that are not to be trusted.
C_MemoryInfos ==
    {[C_MemoryInfo_base EXCEPT !.modules = PtrTo(m), !.module_count = Len(m)] :
        m \in UNION {[1..n -> C_RAM_Modules] : n \in 1..MaxArr}}
    \cup {[C_MemoryInfo_base EXCEPT !.module_count = c] : c \in {-1, 0, MaxArr}}
    \cup {[C_MemoryInfo_base EXCEPT
              !.modules = PtrTo(<<[C_RAM_Module_base EXCEPT !.vendor = PtrTo(tBad0)]>>),
              !.module_count = c] : c \in {-1, 0}}

C_MainBoard_base ==
    [vendor |-> PtrTo(tHi), name |-> PtrTo(tHi), version |-> PtrTo(tHi),
     serialNumber |-> PtrTo(tHi)]

C_MainBoards ==
    {C_MainBoard_base}
    \cup Vary(C_MainBoard_base, {"vendor", "name", "version", "serialNumber"}, TextVariants)
    \cup {[C_MainBoard_base EXCEPT !.vendor = PtrTo(tBad1)],
          [C_MainBoard_base EXCEPT !.name = PtrTo(tBad1), !.serialNumber = PtrTo(tBad0)]}

C_Disk_base ==
    [id |-> 0, vendor |-> PtrTo(tHi), model |-> PtrTo(tHi), serialNumber |-> PtrTo(tHi),
     size_Bytes |-> 512000, free_size_Bytes |-> 128000, volumes |-> C_StringArray_base]

C_Disks ==
    {C_Disk_base}
    \cup Vary(C_Disk_base, {"id"}, {1})
    \cup Vary(C_Disk_base, {"vendor", "model", "serialNumber"}, TextVariants)
    \cup Vary(C_Disk_base, {"volumes"}, C_StringArrays)
    \cup {[C_Disk_base EXCEPT !.vendor = PtrTo(tBad1)],
          [C_Disk_base EXCEPT !.serialNumber = PtrTo(tBad1),
                              !.volumes = [strings |-> PtrTo(<<PtrTo(tBad0)>>), count |-> 1]]}

C_Battery_base ==
    [id |-> 0, vendor |-> PtrTo(tHi), model |-> PtrTo(tHi), serialNumber |-> PtrTo(tHi),
     technology |-> PtrTo(tHi), energyFull |-> 50000, energyNow |-> 42000,
     charging |-> FALSE]

C_Batteries ==
    {C_Battery_base}
    \cup Vary(C_Battery_base, {"id"}, {1})
    \cup Vary(C_Battery_base, {"charging"}, {TRUE})
    \cup Vary(C_Battery_base, {"vendor", "model", "serialNumber", "technology"}, TextVariants)
    \cup {[C_Battery_base EXCEPT !.vendor = PtrTo(tBad1)],
          [C_Battery_base EXCEPT !.model = PtrTo(tBad1), !.technology = PtrTo(tBad0)]}

C_Network_base ==
    [interfaceIndex |-> PtrTo(tHi), description |-> PtrTo(tHi), mac |-> PtrTo(tHi),
     ip4 |-> PtrTo(tHi), ip6 |-> PtrTo(tHi)]

C_Networks ==
    {C_Network_base}
    \cup Vary(C_Network_base, {"interfaceIndex", "description", "mac", "ip4", "ip6"},
              TextVariants)
    \cup {[C_Network_base EXCEPT !.interfaceIndex = PtrTo(tBad1)],
          [C_Network_base EXCEPT !.description = PtrTo(tBad1), !.ip6 = PtrTo(tBad0)]}

\* C_Int64Array / C_DoubleArray: a values pointer and a count.  A double is
\* stood for by its value in percent.
ThreadValues == {0, 50, 100}

C_ValueArrays ==
    {[values |-> PtrTo(v), count |-> Len(v)] :
        v \in UNION {[1..n -> ThreadValues] : n \in 1..MaxArr}}
    \cup {[values |-> NullPtr, count |-> c] : c \in {-1, 0, MaxArr}}
    \cup {[values |-> PtrTo(<<50>>), count |-> c] : c \in {-1, 0}}
    \cup {[values |-> PtrTo(<<>>), count |-> 0]}

\* The cpu ids a caller asks about.
CpuIds == {-1, 0, 5}

(***************************************************************************)
(* The query operations.  Each caller thread is at one position of one     *)
(* query; the native library's allocator is the heap.                      *)
(***************************************************************************)
VARIABLES
    heap,     \* the native allocator: address -> the block living there
    pc,       \* per thread: "idle", "counted", "convert", "free", or "done"
              \* once the query has returned
    op,       \* per thread: the query it runs, or ran last
    arg,      \* per thread: the cpu_id argument of that query
    count,    \* per thread: the local `count`
    ptr,      \* per thread: the local pointer (cpus_ptr, os_ptr, arr_ptr, ...)
    idx,      \* per thread: the next element the slice iterator yields
    acc,      \* per thread: the elements collected so far
    result,   \* per thread: the local `result`, and the value returned
    calls,    \* per thread: the foreign calls of the query, in order
    blk,      \* per thread: what the get entry point handed out (for reference)
    faults    \* memory faults committed so far

vars == <<heap, pc, op, arg, count, ptr, idx, acc, result, calls, blk, faults>>

Threads == {"t1", "t2"}
Addrs == {1, 2}

ListOps == {"cpus", "gpus", "disks", "batteries", "networks"}
SingleOps == {"os_info", "memory_info", "mainboard_info"}
ThreadOps == {"cpu_thread_utilizations", "cpu_thread_speeds_mhz"}

\* A plausible slip: a query copied from cpus() with a name left unchanged.
GetFn_CopyPaste(o) ==
    CASE o = "cpus" -> "get_all_cpus"
      [] o = "gpus" -> "get_all_gpus"
      [] o = "disks" -> "get_all_disks"
      [] o = "batteries" -> "get_all_disks"
      [] o = "networks" -> "get_all_networks"
      [] o = "os_info" -> "get_os_info"
      [] o = "memory_info" -> "get_memory_info"
      [] o = "mainboard_info" -> "get_memory_info"
      [] o = "cpu_thread_utilizations" -> "get_cpu_thread_utilizations"
      [] o = "cpu_thread_speeds_mhz" -> "get_cpu_thread_utilizations"

CountFn(o) ==
    CASE o = "cpus" -> "get_cpu_count"
      [] o = "gpus" -> "get_gpu_count"
      [] o = "disks" -> "get_disk_count"
      [] o = "batteries" -> "get_battery_count"
      [] o = "networks" -> "get_network_count"

GetFn(o) ==
    CASE o = "cpus" -> "get_all_cpus"
      [] o = "gpus" -> "get_all_gpus"
      [] o = "disks" -> "get_all_disks"
      [] o = "batteries" -> "get_all_batteries"
      [] o = "networks" -> "get_all_networks"
      [] o = "os_info" -> "get_os_info"
      [] o = "memory_info" -> "get_memory_info"
      [] o = "mainboard_info" -> "get_mainboard_info"
      [] o = "cpu_thread_utilizations" -> "get_cpu_thread_utilizations"
      [] o = "cpu_thread_speeds_mhz" -> "get_cpu_thread_speeds_mhz"

FreeFn(o) ==
    CASE o = "cpus" -> "free_cpu_info"
      [] o = "gpus" -> "free_gpu_info"
      [] o = "disks" -> "free_disk_info"
      [] o = "batteries" -> "free_battery_info"
      [] o = "networks" -> "free_network_info"
      [] o = "os_info" -> "free_os_info"
      [] o = "memory_info" -> "free_memory_info"
      [] o = "mainboard_info" -> "free_mainboard_info"
      [] o = "cpu_thread_utilizations" -> "free_double_array"
      [] o = "cpu_thread_speeds_mhz" -> "free_int64_array"

\* The structs a get entry point may hand out.
Structs(o) ==
    CASE o = "cpus" -> C_CPUs
      [] o = "gpus" -> C_GPUs
      [] o = "disks" -> C_Disks
      [] o = "batteries" -> C_Batteries
      [] o = "networks" -> C_Networks
      [] o = "os_info" -> C_OSs
      [] o = "memory_info" -> C_MemoryInfos
      [] o = "mainboard_info" -> C_MainBoards
      [] o = "cpu_thread_utilizations" -> C_ValueArrays
      [] o = "cpu_thread_speeds_mhz" -> C_ValueArrays

\* The converter each query maps over its block.
try_from(o, c) ==
    CASE o = "cpus" -> Cpu_try_from(c)
      [] o = "gpus" -> Gpu_try_from(c)
      [] o = "disks" -> Disk_try_from(c)
      [] o = "batteries" -> Battery_try_from(c)
      [] o = "networks" -> Network_try_from(c)
      [] o = "os_info" -> Os_try_from(c)
      [] o = "memory_info" -> MemoryInfo_try_from(c)
      [] o = "mainboard_info" -> MainBoard_try_from(c)

(***************************************************************************)
(* The native side: allocation, release, and what a read finds.            *)
(***************************************************************************)
FreeCell == [live |-> FALSE, owner |-> "none", kind |-> "none", data |-> <<>>]
Cell(t, o, data) == [live |-> TRUE, owner |-> t, kind |-> o, data |-> data]

\* What a get entry point may return: null, or the address of a fresh block.
GetResults(h) ==
    {NULL} \cup {a \in Addrs : ~h[a].live /\ \A b \in Addrs : ~h[b].live => a <= b}

\* The free entry point on address a.
Release(h, a) == [h EXCEPT ![a] = FreeCell]

\* Element i of the block at address a, as thread t reads it.  Reading
\* what is not this thread's live block, or past its end, is undefined:
\* any struct may be found.
ReadElem(h, a, i, t, any) ==
    IF h[a].live /\ h[a].owner = t /\ i <= Len(h[a].data)
    THEN {h[a].data[i]} ELSE any

ReadFaults(h, a, i, t) ==
    IF ~(h[a].live /\ h[a].owner = t) THEN {"use_after_free"}
    ELSE IF i > Len(h[a].data) THEN {"out_of_bounds"}
    ELSE {}

FreeFaults(h, a, t) ==
    IF ~h[a].live THEN {"double_free"}
    ELSE IF h[a].owner # t THEN {"foreign_free"}
    ELSE {}

Call(fn, args, ret) == [fn |-> fn, args |-> args, ret |-> ret]
NoResult == [tag |-> "None"]

Init ==
    /\ heap = [a \in Addrs |-> FreeCell]
    /\ pc = [t \in Threads |-> "idle"]
    /\ op = [t \in Threads |-> "none"]
    /\ arg = [t \in Threads |-> 0]
    /\ count = [t \in Threads |-> 0]
    /\ ptr = [t \in Threads |-> NULL]
    /\ idx = [t \in Threads |-> 0]
    /\ acc = [t \in Threads |-> <<>>]
    /\ result = [t \in Threads |-> NoResult]
    /\ calls = [t \in Threads |-> <<>>]
    /\ blk = [t \in Threads |-> <<>>]
    /\ faults = {}

\* The locals of a query as it is entered.
Enter(t, o, id) ==
    /\ pc[t] = "idle"
    /\ op' = [op EXCEPT ![t] = o]
    /\ arg' = [arg EXCEPT ![t] = id]
    /\ idx' = [idx EXCEPT ![t] = 0]
    /\ acc' = [acc EXCEPT ![t] = <<>>]

(***************************************************************************)
(* List-valued queries: cpus, gpus, disks, batteries, networks.            *)
(***************************************************************************)
\* A plausible slip: only a negative count taken as "nothing to fetch".
EmptyCount_Strict(c) == c < 0

\* if count <= 0 { return Ok(Vec::new()); }
EmptyCount(c) == c <= 0

\* A plausible slip: `?` applied to the collected result before the free
\* call, so that a failed conversion returns without releasing the block.
ListFlow_SkipFreeOnErr(at, failed) ==
    CASE at = "get_all" -> "convert"
      [] at = "convert" -> IF failed THEN "done" ELSE "free"
      [] at = "free" -> "done"

\* A plausible slip: the mapped iterator left lazy and collected only at
\* the return, after the free call.
ListFlow_LazyIter(at, failed) ==
    CASE at = "get_all" -> "free"
      [] at = "free" -> "convert"
      [] at = "convert" -> "done"

\* The statement that follows each step of a list-valued query: the block
\* is converted, then freed whether or not the conversion failed, then the
\* result is returned.
ListFlow(at, failed) ==
    CASE at = "get_all" -> "convert"
      [] at = "convert" -> "free"
      [] at = "free" -> "done"

\* let count = bindings::get_X_count(); and the check of it
list_count(t, o) ==
    /\ Enter(t, o, 0)
    /\ \E c \in -1..MaxCount :
        /\ count' = [count EXCEPT ![t] = c]
        /\ calls' = [calls EXCEPT ![t] = <<Call(CountFn(o), <<>>, c)>>]
        /\ IF EmptyCount(c)
           THEN /\ result' = [result EXCEPT ![t] = Ok(<<>>)]
                /\ pc' = [pc EXCEPT ![t] = "done"]
           ELSE /\ result' = [result EXCEPT ![t] = NoResult]
                /\ pc' = [pc EXCEPT ![t] = "counted"]
    /\ ptr' = [ptr EXCEPT ![t] = NULL]
    /\ blk' = [blk EXCEPT ![t] = <<>>]
    /\ UNCHANGED <<heap, faults>>

\* A plausible slip: the block's pointer kept in a static that all calls of
\* the query share, rather than in a local of the call.
list_get_all_StaticPtr(t, o) ==
    /\ pc[t] = "counted" /\ op[t] = o
    /\ \E p \in GetResults(heap) :
        /\ calls' = [calls EXCEPT ![t] = Append(@, Call(GetFn(o), <<>>, p))]
        /\ ptr' = [u \in Threads |-> p]
        /\ IF p = NULL
           THEN /\ result' = [result EXCEPT ![t] = Err(DataUnavailable(GetFn(o)))]
                /\ pc' = [pc EXCEPT ![t] = "done"]
                /\ UNCHANGED <<heap, blk, idx>>
           ELSE \E data \in [1..count[t] -> Structs(o)] :
                /\ heap' = [heap EXCEPT ![p] = Cell(t, o, data)]
                /\ blk' = [blk EXCEPT ![t] = data]
                /\ idx' = [idx EXCEPT ![t] = 1]
                /\ pc' = [pc EXCEPT ![t] = ListFlow("get_all", FALSE)]
                /\ UNCHANGED result
    /\ UNCHANGED <<op, arg, count, acc, faults>>

\* let X_ptr = bindings::get_all_X(); and the null check
list_get_all(t, o) ==
    /\ pc[t] = "counted" /\ op[t] = o
    /\ \E p \in GetResults(heap) :
        /\ calls' = [calls EXCEPT ![t] = Append(@, Call(GetFn(o), <<>>, p))]
        /\ ptr' = [ptr EXCEPT ![t] = p]
        /\ IF p = NULL
           THEN /\ result' = [result EXCEPT ![t] = Err(DataUnavailable(GetFn(o)))]
                /\ pc' = [pc EXCEPT ![t] = "done"]
                /\ UNCHANGED <<heap, blk, idx>>
           ELSE \E data \in [1..count[t] -> Structs(o)] :
                /\ heap' = [heap EXCEPT ![p] = Cell(t, o, data)]
                /\ blk' = [blk EXCEPT ![t] = data]
                /\ idx' = [idx EXCEPT ![t] = 1]
                /\ pc' = [pc EXCEPT ![t] = ListFlow("get_all", FALSE)]
                /\ UNCHANGED result
    /\ UNCHANGED <<op, arg, count, acc, faults>>

\* One element of from_raw_parts(X_ptr, count).iter().map(X::try_from).collect()
list_convert(t, o) ==
    /\ pc[t] = "convert" /\ op[t] = o
    /\ \E c \in ReadElem(heap, ptr[t], idx[t], t, Structs(o)) :
        LET r == try_from(o, c) IN
        IF IsErr(r)
        THEN /\ result' = [result EXCEPT ![t] = r]
             /\ pc' = [pc EXCEPT ![t] = ListFlow("convert", TRUE)]
             /\ UNCHANGED <<acc, idx>>
        ELSE /\ acc' = [acc EXCEPT ![t] = Append(@, r.val)]
             /\ IF idx[t] >= count[t]
                THEN /\ result' = [result EXCEPT ![t] = Ok(acc'[t])]
                     /\ pc' = [pc EXCEPT ![t] = ListFlow("convert", FALSE)]
                     /\ UNCHANGED idx
                ELSE /\ idx' = [idx EXCEPT ![t] = @ + 1]
                     /\ UNCHANGED <<result, pc>>
    /\ faults' = faults \cup ReadFaults(heap, ptr[t], idx[t], t)
    /\ UNCHANGED <<heap, op, arg, count, ptr, calls, blk>>

\* bindings::free_X_info(X_ptr, count); result
list_free(t, o) ==
    /\ pc[t] = "free" /\ op[t] = o
    /\ calls' = [calls EXCEPT ![t] = Append(@, Call(FreeFn(o), <<ptr[t], count[t]>>, 0))]
    /\ faults' = faults \cup FreeFaults(heap, ptr[t], t)
    /\ heap' = Release(heap, ptr[t])
    /\ pc' = [pc EXCEPT ![t] = ListFlow("free", IsErr(result[t]))]
    /\ UNCHANGED <<op, arg, count, ptr, idx, acc, result, blk>>

list_query(t, o) ==
    \/ list_count(t, o)
    \/ list_get_all(t, o)
    \/ list_convert(t, o)
    \/ list_free(t, o)

cpus(t) == list_query(t, "cpus")
gpus(t) == list_query(t, "gpus")
disks(t) == list_query(t, "disks")
batteries(t) == list_query(t, "batteries")
networks(t) == list_query(t, "networks")

(***************************************************************************)
(* Singleton queries: os_info, memory_info, mainboard_info.                *)
(***************************************************************************)
\* A plausible slip: X::try_from(&*X_ptr)? returning before the free call.
SingleFlow_SkipFreeOnErr(at, failed) ==
    CASE at = "get" -> "convert"
      [] at = "convert" -> IF failed THEN "done" ELSE "free"
      [] at = "free" -> "done"

SingleFlow(at, failed) ==
    CASE at = "get" -> "convert"
      [] at = "convert" -> "free"
      [] at = "free" -> "done"

\* let X_ptr = bindings::get_X_info(); and the null check
single_get(t, o) ==
    /\ Enter(t, o, 0)
    /\ count' = [count EXCEPT ![t] = 0]
    /\ \E p \in GetResults(heap) :
        /\ calls' = [calls EXCEPT ![t] = <<Call(GetFn(o), <<>>, p)>>]
        /\ ptr' = [ptr EXCEPT ![t] = p]
        /\ IF p = NULL
           THEN /\ result' = [result EXCEPT ![t] = Err(DataUnavailable(GetFn(o)))]
                /\ blk' = [blk EXCEPT ![t] = <<>>]
                /\ pc' = [pc EXCEPT ![t] = "done"]
                /\ UNCHANGED heap
           ELSE \E c \in Structs(o) :
                /\ heap' = [heap EXCEPT ![p] = Cell(t, o, <<c>>)]
                /\ blk' = [blk EXCEPT ![t] = <<c>>]
                /\ result' = [result EXCEPT ![t] = NoResult]
                /\ pc' = [pc EXCEPT ![t] = SingleFlow("get", FALSE)]
    /\ UNCHANGED faults

\* let result = X::try_from(&*X_ptr);
single_convert(t, o) ==
    /\ pc[t] = "convert" /\ op[t] = o
    /\ \E c \in ReadElem(heap, ptr[t], 1, t, Structs(o)) :
        LET r == try_from(o, c) IN
        /\ result' = [result EXCEPT ![t] = r]
        /\ pc' = [pc EXCEPT ![t] = SingleFlow("convert", IsErr(r))]
    /\ faults' = faults \cup ReadFaults(heap, ptr[t], 1, t)
    /\ UNCHANGED <<heap, op, arg, count, ptr, idx, acc, calls, blk>>

\* bindings::free_X_info(X_ptr); result
single_free(t, o) ==
    /\ pc[t] = "free" /\ op[t] = o
    /\ calls' = [calls EXCEPT ![t] = Append(@, Call(FreeFn(o), <<ptr[t]>>, 0))]
    /\ faults' = faults \cup FreeFaults(heap, ptr[t], t)
    /\ heap' = Release(heap, ptr[t])
    /\ pc' = [pc EXCEPT ![t] = SingleFlow("free", IsErr(result[t]))]
    /\ UNCHANGED <<op, arg, count, ptr, idx, acc, result, blk>>

single_query(t, o) ==
    \/ single_get(t, o)
    \/ single_convert(t, o)
    \/ single_free(t, o)

os_info(t) == single_query(t, "os_info")
memory_info(t) == single_query(t, "memory_info")
mainboard_info(t) == single_query(t, "mainboard_info")

(***************************************************************************)
(* Per-CPU queries.                                                        *)
(***************************************************************************)
\* unsafe { bindings::get_cpu_utilization(cpu_id) }
cpu_utilization(t) ==
    \E id \in CpuIds, v \in ThreadValues :
        /\ Enter(t, "cpu_utilization", id)
        /\ calls' = [calls EXCEPT ![t] = <<Call("get_cpu_utilization", <<id>>, v)>>]
        /\ result' = [result EXCEPT ![t] = [tag |-> "Value", val |-> v]]
        /\ count' = [count EXCEPT ![t] = 0]
        /\ ptr' = [ptr EXCEPT ![t] = NULL]
        /\ blk' = [blk EXCEPT ![t] = <<>>]
        /\ pc' = [pc EXCEPT ![t] = "done"]
        /\ UNCHANGED <<heap, faults>>

ThreadFlow(at, failed) ==
    CASE at = "get" -> "convert"
      [] at = "convert" -> "free"
      [] at = "free" -> "done"

\* A plausible slip: the operation name alone, as in the other queries.
ThreadUnavailable_NoId(o, cpu_id) == DataUnavailable(GetFn(o))

\* format!("get_cpu_thread_X for cpu_id {}", cpu_id)
ThreadUnavailable(o, cpu_id) ==
    DataUnavailable(GetFn(o) \o " for cpu_id " \o ToString(cpu_id))

\* if arr.values.is_null() || arr.count <= 0 { Vec::new() }
\* else { from_raw_parts(arr.values, arr.count as usize).to_vec() }
thread_values(arr) ==
    IF is_null(arr.values) \/ arr.count <= 0 THEN <<>>
    ELSE from_raw_parts(arr.values.mem, arr.count)

\* let arr_ptr = bindings::get_cpu_thread_X(cpu_id); and the null check
thread_get(t, o) ==
    \E id \in CpuIds :
        /\ Enter(t, o, id)
        /\ count' = [count EXCEPT ![t] = 0]
        /\ \E p \in GetResults(heap) :
            /\ calls' = [calls EXCEPT ![t] = <<Call(GetFn(o), <<id>>, p)>>]
            /\ ptr' = [ptr EXCEPT ![t] = p]
            /\ IF p = NULL
               THEN /\ result' = [result EXCEPT ![t] = Err(ThreadUnavailable(o, id))]
                    /\ blk' = [blk EXCEPT ![t] = <<>>]
                    /\ pc' = [pc EXCEPT ![t] = "done"]
                    /\ UNCHANGED heap
               ELSE \E a \in Structs(o) :
                    /\ heap' = [heap EXCEPT ![p] = Cell(t, o, <<a>>)]
                    /\ blk' = [blk EXCEPT ![t] = <<a>>]
                    /\ result' = [result EXCEPT ![t] = NoResult]
                    /\ pc' = [pc EXCEPT ![t] = ThreadFlow("get", FALSE)]
        /\ UNCHANGED faults

\* let arr = &*arr_ptr; let result = ...;
thread_copy(t, o) ==
    /\ pc[t] = "convert" /\ op[t] = o
    /\ \E a \in ReadElem(heap, ptr[t], 1, t, Structs(o)) :
        /\ result' = [result EXCEPT ![t] = Ok(thread_values(a))]
        /\ pc' = [pc EXCEPT ![t] = ThreadFlow("convert", FALSE)]
    /\ faults' = faults \cup ReadFaults(heap, ptr[t], 1, t)
    /\ UNCHANGED <<heap, op, arg, count, ptr, idx, acc, calls, blk>>

\* bindings::free_X_array(arr_ptr); Ok(result)
thread_free(t, o) ==
    /\ pc[t] = "free" /\ op[t] = o
    /\ calls' = [calls EXCEPT ![t] = Append(@, Call(FreeFn(o), <<ptr[t]>>, 0))]
    /\ faults' = faults \cup FreeFaults(heap, ptr[t], t)
    /\ heap' = Release(heap, ptr[t])
    /\ pc' = [pc EXCEPT ![t] = ThreadFlow("free", FALSE)]
    /\ UNCHANGED <<op, arg, count, ptr, idx, acc, result, blk>>

thread_query(t, o) ==
    \/ thread_get(t, o)
    \/ thread_copy(t, o)
    \/ thread_free(t, o)

cpu_thread_utilizations(t) == thread_query(t, "cpu_thread_utilizations")
cpu_thread_speeds_mhz(t) == thread_query(t, "cpu_thread_speeds_mhz")

(***************************************************************************)
(* One caller, running one query after another.                            *)
(***************************************************************************)
Query(t) ==
    \/ cpus(t)
    \/ gpus(t)
    \/ disks(t)
    \/ batteries(t)
    \/ networks(t)
    \/ os_info(t)
    \/ memory_info(t)
    \/ mainboard_info(t)
    \/ cpu_utilization(t)
    \/ cpu_thread_utilizations(t)
    \/ cpu_thread_speeds_mhz(t)

\* The caller is done with the value a query returned; it owns no foreign
\* resource, so nothing of the native side is touched.
caller_drop(t) ==
    /\ pc[t] = "done"
    /\ pc' = [pc EXCEPT ![t] = "idle"]
    /\ op' = [op EXCEPT ![t] = "none"]
    /\ arg' = [arg EXCEPT ![t] = 0]
    /\ count' = [count EXCEPT ![t] = 0]
    /\ ptr' = [ptr EXCEPT ![t] = NULL]
    /\ idx' = [idx EXCEPT ![t] = 0]
    /\ acc' = [acc EXCEPT ![t] = <<>>]
    /\ result' = [result EXCEPT ![t] = NoResult]
    /\ calls' = [calls EXCEPT ![t] = <<>>]
    /\ blk' = [blk EXCEPT ![t] = <<>>]
    /\ UNCHANGED <<heap, faults>>

Next == Query("t1") \/ caller_drop("t1")

Spec == Init /\ [][Next]_vars

(***************************************************************************)
(* Several callers, each running one query after another, their steps      *)
(* interleaved in any order.  Every foreign call is one step.  To keep the *)
(* interleavings within reach the native inventory is small here: a list   *)
(* holds at most ConcCount devices, and an entry point hands out one of    *)
(* two structs of its kind, a plain one and one with a malformed text.     *)
(***************************************************************************)
SampleStructs(o) ==
    CASE o = "cpus" -> {C_CPU_base, [C_CPU_base EXCEPT !.vendor = PtrTo(tBad0)]}
      [] o = "gpus" -> {C_GPU_base, [C_GPU_base EXCEPT !.vendor = PtrTo(tBad0)]}
      [] o = "disks" -> {C_Disk_base, [C_Disk_base EXCEPT !.vendor = PtrTo(tBad0)]}
      [] o = "batteries" -> {C_Battery_base, [C_Battery_base EXCEPT !.vendor = PtrTo(tBad0)]}
      [] o = "networks" -> {C_Network_base, [C_Network_base EXCEPT !.mac = PtrTo(tBad0)]}
      [] o = "os_info" -> {C_OS_base, [C_OS_base EXCEPT !.name = PtrTo(tBad0)]}
      [] o = "memory_info" ->
            {C_MemoryInfo_base,
             [C_MemoryInfo_base EXCEPT
                 !.modules = PtrTo(<<[C_RAM_Module_base EXCEPT !.vendor = PtrTo(tBad0)]>>),
                 !.module_count = 1]}
      [] o = "mainboard_info" ->
            {C_MainBoard_base, [C_MainBoard_base EXCEPT !.vendor = PtrTo(tBad0)]}
      [] o = "cpu_thread_utilizations" ->
            {[values |-> PtrTo(<<50>>), count |-> 1], [values |-> NullPtr, count |-> MaxArr]}
      [] o = "cpu_thread_speeds_mhz" ->
            {[values |-> PtrTo(<<50>>), count |-> 1], [values |-> NullPtr, count |-> MaxArr]}

SmallInventory ==
    /\ \A t \in Threads : count[t] <= ConcCount
    /\ \A a \in Addrs :
          heap[a].live =>
              \A i \in 1..Len(heap[a].data) : heap[a].data[i] \in SampleStructs(heap[a].kind)

ConcNext ==
    \E t \in Threads :
        \/ cpus(t) /\ SmallInventory'
        \/ gpus(t) /\ SmallInventory'
        \/ disks(t) /\ SmallInventory'
        \/ batteries(t) /\ SmallInventory'
        \/ networks(t) /\ SmallInventory'
        \/ os_info(t) /\ SmallInventory'
        \/ memory_info(t) /\ SmallInventory'
        \/ mainboard_info(t) /\ SmallInventory'
        \/ cpu_utilization(t)
        \/ cpu_thread_utilizations(t) /\ SmallInventory'
        \/ cpu_thread_speeds_mhz(t) /\ SmallInventory'
        \/ caller_drop(t)

ConcSpec == Init /\ [][ConcNext]_vars

(***************************************************************************)
(* One caller, with a native inventory that may change between the count   *)
(* call and the get-all call of a query: a device plugged in or removed.   *)
(* get-all then hands out a block that holds the devices present at its    *)
(* own call, which are not `count` many.                                   *)
(***************************************************************************)
\* The sizes of an inventory that has changed since c devices were counted.
ChangedCounts(c) == (1..MaxCount) \ {c}

\* let X_ptr = bindings::get_all_X(); on a changed inventory.  The null
\* check passes; the query goes on with the count it read before.
list_get_all_changed(t, o) ==
    /\ pc[t] = "counted" /\ op[t] = o
    /\ \E p \in GetResults(heap) \ {NULL} :
        /\ calls' = [calls EXCEPT ![t] = Append(@, Call(GetFn(o), <<>>, p))]
        /\ ptr' = [ptr EXCEPT ![t] = p]
        /\ \E n \in ChangedCounts(count[t]) :
            \E data \in [1..n -> Structs(o)] :
                /\ heap' = [heap EXCEPT ![p] = Cell(t, o, data)]
                /\ blk' = [blk EXCEPT ![t] = data]
        /\ idx' = [idx EXCEPT ![t] = 1]
        /\ pc' = [pc EXCEPT ![t] = ListFlow("get_all", FALSE)]
    /\ UNCHANGED <<op, arg, count, acc, result, faults>>

inventory_changed(t) == \E o \in ListOps : list_get_all_changed(t, o)

RaceNext == Query("t1") \/ inventory_changed("t1") \/ caller_drop("t1")

RaceSpec == Init /\ [][RaceNext]_vars

(***************************************************************************)
(* What the claims are stated over.                                        *)
(***************************************************************************)
FreeNames ==
    {"free_cpu_info", "free_gpu_info", "free_disk_info", "free_battery_info",
     "free_network_info", "free_os_info", "free_memory_info", "free_mainboard_info",
     "free_double_array", "free_int64_array"}

IsFreeCall(c) == c.fn \in FreeNames

\* The free calls a thread's current query has made, in order.
Frees(t) == SelectSeq(calls[t], IsFreeCall)

\* The free entry point that matches each query.
MatchingFree ==
    [cpus |-> "free_cpu_info", gpus |-> "free_gpu_info", disks |-> "free_disk_info",
     batteries |-> "free_battery_info", networks |-> "free_network_info",
     os_info |-> "free_os_info", memory_info |-> "free_memory_info",
     mainboard_info |-> "free_mainboard_info",
     cpu_thread_utilizations |-> "free_double_array",
     cpu_thread_speeds_mhz |-> "free_int64_array"]

\* The operation name each query reports.
OperationName ==
    [cpus |-> "get_all_cpus", gpus |-> "get_all_gpus", disks |-> "get_all_disks",
     batteries |-> "get_all_batteries", networks |-> "get_all_networks",
     os_info |-> "get_os_info", memory_info |-> "get_memory_info",
     mainboard_info |-> "get_mainboard_info",
     cpu_thread_utilizations |-> "get_cpu_thread_utilizations",
     cpu_thread_speeds_mhz |-> "get_cpu_thread_speeds_mhz"]

CountName ==
    [cpus |-> "get_cpu_count", gpus |-> "get_gpu_count", disks |-> "get_disk_count",
     batteries |-> "get_battery_count", networks |-> "get_network_count"]

\* Thread t runs a list-valued query whose get-all call returned a block.
GotBlock(t) ==
    /\ op[t] \in ListOps
    /\ Len(calls[t]) >= 2
    /\ calls[t][2].ret # NULL

Owns(t) == {a \in Addrs : heap[a].live /\ heap[a].owner = t}

\* C1: after any sequence of list-valued queries, every block get-all handed
\* out has been passed to the matching free entry point exactly once, with
\* the pointer get-all returned and the count the count call returned, by
\* the time its query returns, whether or not the conversion failed; no
\* block is freed twice and none outlives its query.
C1_FreedExactlyOnce ==
    /\ "double_free" \notin faults
    /\ \A t \in Threads :
        /\ pc[t] \in {"idle", "done"} => Owns(t) = {}
        /\ (pc[t] = "done" /\ GotBlock(t)) =>
              Frees(t) = <<Call(MatchingFree[op[t]],
                                <<calls[t][2].ret, calls[t][1].ret>>, 0)>>
        /\ (pc[t] # "done" /\ GotBlock(t)) => Len(Frees(t)) <= 1

\* A networks() call whose second element failed to convert has returned.
C1_Witness ==
    /\ pc["t1"] = "done" /\ op["t1"] = "networks"
    /\ GotBlock("t1")
    /\ IsErr(result["t1"]) /\ Len(acc["t1"]) = 1
    /\ Len(Frees("t1")) = 1

\* C2: when the count entry point returns a count <= 0, a list-valued query
\* returns an empty sequence and makes no further foreign call.
C2_EmptyCountNoCalls ==
    \A t \in Threads :
        (op[t] \in ListOps /\ calls[t][1].ret <= 0) =>
            /\ pc[t] = "done"
            /\ result[t] = Ok(<<>>)
            /\ calls[t] = <<Call(CountName[op[t]], <<>>, calls[t][1].ret)>>

\* disks() has returned after the count entry point reported a negative count.
C2_Witness ==
    /\ pc["t1"] = "done" /\ op["t1"] = "disks"
    /\ calls["t1"][1].ret < 0
    /\ result["t1"] = Ok(<<>>)

\* C3: when the count is > 0 and get-all returns null, a list-valued query
\* fails with DataUnavailable carrying its get-all operation name, and
\* issues no free call.
C3_NullGetAll ==
    \A t \in Threads :
        (op[t] \in ListOps /\ Len(calls[t]) >= 2 /\ calls[t][2].ret = NULL) =>
            /\ pc[t] = "done"
            /\ calls[t][1].ret > 0
            /\ IsErr(result[t])
            /\ result[t].err = DataUnavailable(OperationName[op[t]])
            /\ Len(calls[t]) = 2
            /\ Frees(t) = <<>>

\* batteries() has failed on a null get-all pointer.
C3_Witness ==
    /\ pc["t1"] = "done" /\ op["t1"] = "batteries"
    /\ calls["t1"][1].ret > 0
    /\ calls["t1"][2] = Call("get_all_batteries", <<>>, NULL)
    /\ IsErr(result["t1"])

(***************************************************************************)
(* The fields of the foreign structs and the local fields they are copied  *)
(* to, and what the sample texts are expected to decode to.                *)
(***************************************************************************)
TextMap(o) ==
    CASE o = "cpus" -> {<<"vendor", "vendor">>, <<"modelName", "model_name">>}
      [] o = "gpus" -> {<<"vendor", "vendor">>, <<"name", "name">>,
                        <<"driverVersion", "driver_version">>,
                        <<"vendor_id", "vendor_id">>, <<"device_id", "device_id">>}
      [] o = "disks" -> {<<"vendor", "vendor">>, <<"model", "model">>,
                         <<"serialNumber", "serial_number">>}
      [] o = "batteries" -> {<<"vendor", "vendor">>, <<"model", "model">>,
                             <<"serialNumber", "serial_number">>,
                             <<"technology", "technology">>}
      [] o = "networks" -> {<<"interfaceIndex", "interface_index">>,
                            <<"description", "description">>, <<"mac", "mac_address">>,
                            <<"ip4", "ipv4_address">>, <<"ip6", "ipv6_address">>}
      [] o = "os_info" -> {<<"name", "name">>, <<"version", "version">>,
                           <<"kernel", "kernel">>}
      [] o = "mainboard_info" -> {<<"vendor", "vendor">>, <<"name", "name">>,
                                  <<"version", "version">>,
                                  <<"serialNumber", "serial_number">>}
      [] o = "memory_info" -> {}
      [] o = "ram_module" -> {<<"vendor", "vendor">>, <<"name", "name">>,
                              <<"model", "model">>, <<"serial_number", "serial_number">>}

ScalarMap(o) ==
    CASE o = "cpus" -> {<<"id", "id">>, <<"numPhysicalCores", "num_physical_cores">>,
                        <<"numLogicalCores", "num_logical_cores">>,
                        <<"maxClockSpeed_MHz", "max_clock_speed_mhz">>,
                        <<"regularClockSpeed_MHz", "regular_clock_speed_mhz">>,
                        <<"L1CacheSize_Bytes", "l1_cache_size_bytes">>,
                        <<"L2CacheSize_Bytes", "l2_cache_size_bytes">>,
                        <<"L3CacheSize_Bytes", "l3_cache_size_bytes">>}
      [] o = "gpus" -> {<<"id", "id">>, <<"memory_Bytes", "memory_bytes">>,
                        <<"frequency_MHz", "frequency_mhz">>, <<"num_cores", "num_cores">>}
      [] o = "disks" -> {<<"id", "id">>, <<"size_Bytes", "size_bytes">>,
                         <<"free_size_Bytes", "free_size_bytes">>}
      [] o = "batteries" -> {<<"id", "id">>, <<"energyFull", "energy_full_mwh">>,
                             <<"energyNow", "energy_now_mwh">>,
                             <<"charging", "is_charging">>}
      [] o = "networks" -> {}
      [] o = "os_info" -> {<<"is32bit", "is_32_bit">>, <<"is64bit", "is_64_bit">>,
                           <<"isLittleEndian", "is_little_endian">>}
      [] o = "mainboard_info" -> {}
      [] o = "memory_info" -> {<<"total_Bytes", "total_bytes">>,
                               <<"free_Bytes", "free_bytes">>,
                               <<"available_Bytes", "available_bytes">>}
      [] o = "ram_module" -> {<<"id", "id">>, <<"total_Bytes", "total_bytes">>,
                              <<"frequency_Hz", "frequency_hz">>}

\* The string-array fields.
ArrMap(o) ==
    CASE o = "cpus" -> {<<"flags", "flags">>}
      [] o = "disks" -> {<<"volumes", "volumes">>}
      [] OTHER -> {}

BadTexts == {PtrTo(tBad0), PtrTo(tBad1)}

\* The failure each malformed sample text is expected to give.
UtfError(p) == IF p = PtrTo(tBad0) THEN InvalidString(0) ELSE InvalidString(1)

\* The text each well-formed sample pointer is expected to give.
Decoded(p) ==
    CASE p = NullPtr -> <<>>
      [] p = PtrTo(tHi) -> <<72, 105>>
      [] p = PtrTo(tE) -> <<233>>
      [] p = PtrTo(tCorsair) -> <<67, 111, 114, 115, 97, 105, 114>>

\* A pointer/count pair that is to be read as an array, and its elements.
Trusted(p, n) == ~p.null /\ n > 0
ArrElems(p, n) == IF Trusted(p, n) THEN [i \in 1..n |-> p.mem[i]] ELSE <<>>

\* The malformed texts among the text fields of a struct.
BadFields(o, c) == {m \in TextMap(o) : c[m[1]] \in BadTexts}

\* The first element of a sequence of text pointers that is malformed, or 0.
FirstBadText(ps) ==
    IF \E i \in 1..Len(ps) : ps[i] \in BadTexts
    THEN CHOOSE i \in 1..Len(ps) :
            ps[i] \in BadTexts /\ \A j \in 1..(i - 1) : ps[j] \notin BadTexts
    ELSE 0

FirstBadModule(ms) ==
    IF \E i \in 1..Len(ms) : BadFields("ram_module", ms[i]) # {}
    THEN CHOOSE i \in 1..Len(ms) :
            /\ BadFields("ram_module", ms[i]) # {}
            /\ \A j \in 1..(i - 1) : BadFields("ram_module", ms[j]) = {}
    ELSE 0

\* The failures element c of a block of query o may be reported with: that
\* of one of its malformed text fields, of the first malformed text of an
\* embedded string array, or of the first module holding a malformed text.
ElemErrors(o, c) ==
    {UtfError(c[m[1]]) : m \in BadFields(o, c)}
    \cup UNION {LET ps == ArrElems(c[m[1]].strings, c[m[1]].count)
                    k == FirstBadText(ps)
                IN IF k = 0 THEN {} ELSE {UtfError(ps[k])} : m \in ArrMap(o)}
    \cup (IF o = "memory_info"
          THEN LET ms == ArrElems(c.modules, c.module_count)
                   k == FirstBadModule(ms)
               IN IF k = 0 THEN {}
                  ELSE {UtfError(ms[k][m[1]]) : m \in BadFields("ram_module", ms[k])}
          ELSE {})

\* The elements of thread t's block that hold a malformed text.
BadElems(t) == {i \in 1..Len(blk[t]) : ElemErrors(op[t], blk[t][i]) # {}}

\* A step of thread t that calls a free entry point.
FreeStep(t) ==
    /\ Len(calls'[t]) = Len(calls[t]) + 1
    /\ IsFreeCall(calls'[t][Len(calls'[t])])

\* C4: foreign memory is released only after the last read of it: no query
\* reads a block after its free call was issued, and the value it returns
\* is complete before that call, which is the last thing the query does.
C4_NoReadAfterFree ==
    [][\A t \in Threads :
        /\ "use_after_free" \notin faults'
        /\ FreeStep(t) =>
              /\ result[t].tag \in {"Ok", "Err"}
              /\ result'[t] = result[t]
              /\ pc'[t] = "done"]_vars

\* memory_info() has returned a value with modules, after its free call.
C4_Witness ==
    /\ pc["t1"] = "done" /\ op["t1"] = "memory_info"
    /\ IsOk(result["t1"]) /\ Len(result["t1"].val.modules) >= 1
    /\ Frees("t1") = <<Call("free_memory_info", <<ptr["t1"]>>, 0)>>
    /\ "use_after_free" \notin faults

\* C5: if a text field of an element of the block a query got (a text of an
\* embedded string array or module array included) is not valid UTF-8, the
\* query returns the InvalidString failure of the first such element in
\* array order, never a value, and its free call still occurs exactly once.
C5_InvalidUtf8FailsQuery ==
    \A t \in Threads :
        (pc[t] = "done" /\ op[t] \in ListOps \cup SingleOps /\ BadElems(t) # {}) =>
            LET k == CHOOSE i \in BadElems(t) : \A j \in BadElems(t) : i <= j IN
            /\ IsErr(result[t])
            /\ result[t].err.kind = "InvalidString"
            /\ result[t].err \in ElemErrors(op[t], blk[t][k])
            /\ Len(Frees(t)) = 1
            /\ Frees(t)[1].fn = MatchingFree[op[t]]
            /\ Frees(t)[1].args[1] = ptr[t]
            /\ "double_free" \notin faults
            /\ Owns(t) = {}

\* gpus() has returned the failure of its first element, whose text is
\* malformed from index 1 on, while its second element is malformed at 0.
C5_Witness ==
    /\ pc["t1"] = "done" /\ op["t1"] = "gpus"
    /\ Len(blk["t1"]) = 2
    /\ blk["t1"][1].name = PtrTo(tBad1)
    /\ blk["t1"][2].vendor = PtrTo(tBad0)
    /\ result["t1"] = Err(InvalidString(1))
    /\ Len(Frees("t1")) = 1

\* C6: a singleton query makes exactly one foreign get call; on null it
\* fails with DataUnavailable naming the get operation and issues no free
\* call; otherwise it converts the struct and issues exactly one matching
\* free call on that pointer before returning, whether or not the
\* conversion failed.
C6_SingletonProtocol ==
    \A t \in Threads :
        (pc[t] = "done" /\ op[t] \in SingleOps) =>
            LET p == calls[t][1].ret IN
            /\ calls[t][1] = Call(OperationName[op[t]], <<>>, p)
            /\ IF p = NULL
               THEN /\ calls[t] = <<Call(OperationName[op[t]], <<>>, NULL)>>
                    /\ result[t] = Err(DataUnavailable(OperationName[op[t]]))
               ELSE /\ calls[t] = <<Call(OperationName[op[t]], <<>>, p),
                                    Call(MatchingFree[op[t]], <<p>>, 0)>>
                    /\ result[t].tag \in {"Ok", "Err"}
                    /\ IsErr(result[t]) <=> BadElems(t) # {}
                    /\ IsErr(result[t]) => result[t].err.kind = "InvalidString"
                    /\ Owns(t) = {}
                    /\ "double_free" \notin faults

\* os_info() has returned a failed conversion, one free call made.
C6_Witness ==
    /\ pc["t1"] = "done" /\ op["t1"] = "os_info"
    /\ calls["t1"][1].ret # NULL
    /\ IsErr(result["t1"])
    /\ Frees("t1") = <<Call("free_os_info", <<calls["t1"][1].ret>>, 0)>>

\* The decimal text of the cpu ids asked about.
IdText(id) == CASE id = -1 -> "-1" [] id = 0 -> "0" [] id = 5 -> "5"

\* What a per-CPU thread query has done once it returned, given the number
\* of elements n it was to copy from the array a it got.
ThreadDetailDone(t, n) ==
    LET p == calls[t][1].ret
        a == blk[t][1]
    IN
    /\ calls[t][1] = Call(OperationName[op[t]], <<arg[t]>>, p)
    /\ IF p = NULL
       THEN /\ result[t] = Err(DataUnavailable(
                   OperationName[op[t]] \o " for cpu_id " \o IdText(arg[t])))
            /\ Len(calls[t]) = 1
       ELSE /\ IsOk(result[t])
            /\ Len(result[t].val) = n
            /\ \A i \in 1..n : result[t].val[i] = a.values.mem[i]
            /\ calls[t] = <<Call(OperationName[op[t]], <<arg[t]>>, p),
                            Call(MatchingFree[op[t]], <<p>>, 0)>>
            /\ Owns(t) = {}

ThreadQueryDone(t) == pc[t] = "done" /\ op[t] \in ThreadOps

\* C7 as stated: on a null pointer the per-CPU thread queries fail with
\* DataUnavailable("<operation> for cpu_id <id>") and free nothing;
\* otherwise the count elements are copied in order, the result is a
\* success and the matching free entry point is called once on the pointer.
C7_AsStated ==
    \A t \in Threads :
        ThreadQueryDone(t) =>
            ThreadDetailDone(t, IF calls[t][1].ret # NULL /\ blk[t][1].count > 0
                                THEN blk[t][1].count ELSE 0)

\* C7, amended: as stated, but the count elements are copied only when the
\* array's values pointer is non-null and its count is > 0; for any other
\* values/count combination the successful result is the empty sequence.
C7_ThreadDetail ==
    \A t \in Threads :
        ThreadQueryDone(t) =>
            ThreadDetailDone(t, IF /\ calls[t][1].ret # NULL
                                   /\ Trusted(blk[t][1].values, blk[t][1].count)
                                THEN blk[t][1].count ELSE 0)

\* cpu_thread_speeds_mhz(5) has copied a two-element array and freed it.
C7_Witness ==
    /\ pc["t1"] = "done" /\ op["t1"] = "cpu_thread_speeds_mhz" /\ arg["t1"] = 5
    /\ blk["t1"] = <<[values |-> PtrTo(<<50, 100>>), count |-> 2]>>
    /\ result["t1"] = Ok(<<50, 100>>)
    /\ Frees("t1") = <<Call("free_int64_array", <<ptr["t1"]>>, 0)>>

\* The values of a returned query, one per element of its block.
Vals(t) == IF op[t] \in ListOps THEN result[t].val ELSE <<result[t].val>>

\* Thread t's query has returned after getting a block of structs.
StructQueryDone(t) ==
    /\ pc[t] = "done"
    /\ op[t] \in ListOps \cup SingleOps
    /\ blk[t] # <<>>

\* The pointer/count pairs embedded in the blocks: each is read as an array
\* exactly when its count is > 0 and its pointer non-null, gives no
\* elements otherwise, and is itself never the reason of a failure.
EmbeddedPairs(t) ==
    /\ StructQueryDone(t) =>
        /\ IsErr(result[t]) => BadElems(t) # {}
        /\ IsOk(result[t]) =>
            \A i \in 1..Len(blk[t]) :
                /\ \A m \in ArrMap(op[t]) :
                      Len(Vals(t)[i][m[2]]) =
                         Len(ArrElems(blk[t][i][m[1]].strings, blk[t][i][m[1]].count))
                /\ op[t] = "memory_info" =>
                      Len(Vals(t)[i].modules) =
                         Len(ArrElems(blk[t][i].modules, blk[t][i].module_count))
    /\ (ThreadQueryDone(t) /\ blk[t] # <<>>) =>
        /\ IsOk(result[t])
        /\ Len(result[t].val) = Len(ArrElems(blk[t][1].values, blk[t][1].count))

ListQueryDone(t) == pc[t] = "done" /\ op[t] \in ListOps

\* C8 as stated: every count/pointer pair, that of the list-valued queries
\* included, is read as an array only if count > 0 and the pointer is
\* non-null; every other combination gives zero elements and no failure.
C8_AsStated ==
    \A t \in Threads :
        /\ EmbeddedPairs(t)
        /\ ListQueryDone(t) =>
              IF calls[t][1].ret > 0 /\ ptr[t] # NULL
              THEN IsOk(result[t]) => Len(result[t].val) = calls[t][1].ret
              ELSE result[t] = Ok(<<>>)

\* C8, amended: as stated for the embedded pairs (flags, volumes, modules,
\* thread values) and for a count <= 0 of a list-valued query; a null
\* get-all pointer after a positive count is not zero elements but the
\* DataUnavailable failure of the query.
C8_TrustedPairs ==
    \A t \in Threads :
        /\ EmbeddedPairs(t)
        /\ ListQueryDone(t) =>
              IF calls[t][1].ret > 0 /\ ptr[t] # NULL
              THEN IsOk(result[t]) => Len(result[t].val) = calls[t][1].ret
              ELSE IF calls[t][1].ret <= 0
              THEN result[t] = Ok(<<>>)
              ELSE /\ IsErr(result[t])
                   /\ result[t].err.kind = "DataUnavailable"

\* cpus() has returned a Cpu without flags for a struct whose flags pointer
\* is null although its count is positive.
C8_Witness ==
    /\ pc["t1"] = "done" /\ op["t1"] = "cpus"
    /\ Len(blk["t1"]) >= 1
    /\ blk["t1"][1].flags.strings = NullPtr /\ blk["t1"][1].flags.count > 0
    /\ IsOk(result["t1"])
    /\ result["t1"].val[1].flags = <<>>

\* Every null text pointer of struct c, of a query or module kind o, has
\* given the empty text in the converted value v.
NullsAreEmpty(o, c, v) ==
    /\ \A m \in TextMap(o) : c[m[1]] = NullPtr => v[m[2]] = <<>>
    /\ \A m \in ArrMap(o) :
          LET ps == ArrElems(c[m[1]].strings, c[m[1]].count) IN
          /\ Len(v[m[2]]) = Len(ps)
          /\ \A j \in 1..Len(ps) : ps[j] = NullPtr => v[m[2]][j] = <<>>

\* C9: a struct with a null text pointer and otherwise well-formed texts
\* converts successfully, the corresponding local text being empty; a null
\* text pointer inside a string array gives an empty element, not a failure
\* and not a shorter array.
C9_NullTextIsEmpty ==
    \A t \in Threads :
        (StructQueryDone(t) /\ BadElems(t) = {}) =>
            /\ IsOk(result[t])
            /\ Len(Vals(t)) = Len(blk[t])
            /\ \A i \in 1..Len(blk[t]) :
                /\ NullsAreEmpty(op[t], blk[t][i], Vals(t)[i])
                /\ op[t] = "memory_info" =>
                      LET ms == ArrElems(blk[t][i].modules, blk[t][i].module_count) IN
                      /\ Len(Vals(t)[i].modules) = Len(ms)
                      /\ \A j \in 1..Len(ms) :
                            NullsAreEmpty("ram_module", ms[j], Vals(t)[i].modules[j])

\* disks() has returned a Disk with an empty serial number and a two-element
\* volumes array whose first element is empty, for null pointers there.
C9_Witness ==
    /\ pc["t1"] = "done" /\ op["t1"] = "disks"
    /\ Len(blk["t1"]) = 2
    /\ blk["t1"][1].serialNumber = NullPtr
    /\ blk["t1"][2].volumes = [strings |-> PtrTo(<<NullPtr, PtrTo(tHi)>>), count |-> 2]
    /\ IsOk(result["t1"])
    /\ result["t1"].val[1].serial_number = <<>>
    /\ result["t1"].val[2].volumes = << <<>>, <<72, 105>> >>

\* A pointer/count pair whose count is the number of elements pointed at.
ValidPair(p, n) == IF p.null THEN n = 0 ELSE n = Len(p.mem)

\* Struct c of kind o is valid: its embedded arrays are as long as their counts.
ValidStruct(o, c) ==
    /\ \A m \in ArrMap(o) : ValidPair(c[m[1]].strings, c[m[1]].count)
    /\ o = "memory_info" => ValidPair(c.modules, c.module_count)

\* v is a faithful copy of struct c, of a query or module kind o.
FaithfulCopy(o, c, v) ==
    /\ \A m \in ScalarMap(o) : v[m[2]] = c[m[1]]
    /\ \A m \in TextMap(o) : v[m[2]] = Decoded(c[m[1]])
    /\ \A m \in ArrMap(o) :
          /\ Len(v[m[2]]) = c[m[1]].count
          /\ \A j \in 1..c[m[1]].count : v[m[2]][j] = Decoded(c[m[1]].strings.mem[j])

\* C10: for valid foreign structs with well-formed UTF-8 text, conversion is
\* a faithful copy: every scalar equals the foreign scalar, every text the
\* decoded foreign bytes, every array field (flags, volumes, modules, the
\* sequence of a list-valued query, the thread values) has the length of
\* the foreign count and holds the elements in foreign order.
C10_FaithfulCopy ==
    \A t \in Threads :
        /\ (/\ StructQueryDone(t)
            /\ BadElems(t) = {}
            /\ \A i \in 1..Len(blk[t]) : ValidStruct(op[t], blk[t][i])) =>
              /\ IsOk(result[t])
              /\ Len(Vals(t)) = Len(blk[t])
              /\ op[t] \in ListOps => Len(result[t].val) = calls[t][1].ret
              /\ \A i \in 1..Len(blk[t]) :
                    /\ FaithfulCopy(op[t], blk[t][i], Vals(t)[i])
                    /\ op[t] = "memory_info" =>
                          /\ Len(Vals(t)[i].modules) = blk[t][i].module_count
                          /\ \A j \in 1..blk[t][i].module_count :
                                FaithfulCopy("ram_module", blk[t][i].modules.mem[j],
                                             Vals(t)[i].modules[j])
        /\ (/\ ThreadQueryDone(t)
            /\ blk[t] # <<>>
            /\ ValidPair(blk[t][1].values, blk[t][1].count)) =>
              result[t] = Ok(blk[t][1].values.mem)

\* memory_info() has returned its three sizes and two Corsair modules, id 0
\* before id 1, for a block holding exactly these.
C10_Witness ==
    /\ pc["t1"] = "done" /\ op["t1"] = "memory_info"
    /\ blk["t1"] = <<[C_MemoryInfo_base EXCEPT
                         !.modules = PtrTo(<<C_RAM_Module_base,
                                             [C_RAM_Module_base EXCEPT !.id = 1]>>),
                         !.module_count = 2]>>
    /\ IsOk(result["t1"])
    /\ result["t1"].val.total_bytes = 16384
    /\ result["t1"].val.free_bytes = 8192
    /\ result["t1"].val.available_bytes = 10240
    /\ Len(result["t1"].val.modules) = 2
    /\ result["t1"].val.modules[1].id = 0
    /\ result["t1"].val.modules[2].id = 1
    /\ \A j \in 1..2 :
          /\ result["t1"].val.modules[j].vendor = <<67, 111, 114, 115, 97, 105, 114>>
          /\ result["t1"].val.modules[j].total_bytes = 8192
          /\ result["t1"].val.modules[j].frequency_hz = 3200

\* The get call of thread t's query, if it has made one.
GetCalls(t) == SelectSeq(calls[t], LAMBDA c : c.fn = OperationName[op[t]])

\* Thread t's query has acquired a block.
Acquired(t) ==
    /\ op[t] \in DOMAIN OperationName
    /\ GetCalls(t) # <<>>
    /\ GetCalls(t)[1].ret # NULL

\* Thread t is between acquiring a block and having freed it.
Holding(t) == pc[t] \in {"convert", "free"}

\* The locals of thread t.
Locals(t) ==
    <<pc[t], op[t], arg[t], count[t], ptr[t], idx[t], acc[t], result[t], calls[t], blk[t]>>

\* A step is a step of one thread: it leaves the locals of every other
\* thread alone, and of the native heap it changes only an address at which
\* that thread acquires a block or frees the block it acquired.
OwnStep(t) ==
    /\ \A u \in Threads \ {t} : Locals(u)' = Locals(u)
    /\ \A a \in Addrs :
          heap'[a] # heap[a] =>
              \/ ~heap[a].live /\ heap'[a].live /\ heap'[a].owner = t /\ ptr'[t] = a
              \/ heap[a].live /\ heap[a].owner = t /\ ptr[t] = a /\ ~heap'[a].live

\* Blocks and threads are paired one to one while a call is under way, and
\* a returned call has freed what it acquired, once.
PairedBlocks ==
    /\ faults = {}
    /\ \A a \in Addrs :
          heap[a].live => Holding(heap[a].owner) /\ ptr[heap[a].owner] = a
    /\ \A t \in Threads :
          /\ Holding(t) =>
                /\ ptr[t] # NULL
                /\ heap[ptr[t]].live /\ heap[ptr[t]].owner = t
                /\ Frees(t) = <<>>
                /\ \A u \in Threads \ {t} : Holding(u) => ptr[u] # ptr[t]
          /\ (pc[t] = "done" /\ Acquired(t)) =>
                /\ Len(Frees(t)) = 1
                /\ Frees(t)[1].fn = MatchingFree[op[t]]
                /\ Frees(t)[1].args[1] = GetCalls(t)[1].ret
          /\ (pc[t] = "done" /\ ~Acquired(t)) => Frees(t) = <<>>

\* C11: with several caller threads running queries in any interleaving
\* (each foreign entry point atomic, each get handing out a fresh block),
\* every block is read and freed only by the thread whose call acquired
\* it, each block is freed exactly once, no thread reads a block another
\* thread has freed, and no step of one thread touches another thread's
\* locals: the layer shares no mutable state between calls.
C11_ThreadsKeepToTheirBlocks ==
    /\ []PairedBlocks
    /\ [][\E t \in Threads : OwnStep(t)]_vars

\* Both threads hold a block at once: t1 has converted its cpus block, at
\* the second address, and is about to free it while t2 is reading its
\* os_info block at the first.
C11_Witness ==
    /\ pc["t1"] = "free" /\ op["t1"] = "cpus"
    /\ pc["t2"] = "convert" /\ op["t2"] = "os_info"
    /\ heap[ptr["t1"]].live /\ heap[ptr["t1"]].owner = "t1"
    /\ heap[ptr["t2"]].live /\ heap[ptr["t2"]].owner = "t2"
    /\ ptr["t1"] = 2 /\ ptr["t2"] = 1

\* The count a list-valued query passed to its free entry point.
FreedCount(t) == Frees(t)[1].args[2]

\* C12 (as stated): in every list-valued query the elements read from the
\* block get-all returned, and the count passed to the free entry point,
\* never exceed the number of elements the block holds, even when the
\* inventory changes between the count call and the get-all call.
C12_AsStated ==
    /\ "out_of_bounds" \notin faults
    /\ \A t \in Threads :
          GotBlock(t) =>
              /\ pc[t] = "convert" => idx[t] <= Len(blk[t])
              /\ Len(acc[t]) <= Len(blk[t])
              /\ Frees(t) # <<>> => FreedCount(t) <= Len(blk[t])

\* cpus() counted two devices, was handed a block of one, read a second
\* element behind it and passed the count of two to free_cpu_info.
C12_Witness ==
    /\ pc["t1"] = "done" /\ op["t1"] = "cpus"
    /\ GotBlock("t1")
    /\ calls["t1"][1].ret = 2
    /\ Len(blk["t1"]) = 1
    /\ IsOk(result["t1"]) /\ Len(result["t1"].val) = 2
    /\ FreedCount("t1") = 2
    /\ "out_of_bounds" \in faults

====
